---- MODULE Spec2Model ----
(***************************************************************************)
(* Heart Rate Monitor API: the FastAPI handlers of main.py over the two    *)
(* tables of models.py, with the request schemas of schemas.py and the     *)
(* token handling of utils.py.                                             *)
(*                                                                         *)
(* Text is modelled as a tuple of characters, so that length, character    *)
(* classes and split("@") are computed rather than assumed. A character is *)
(* a one-character string; one outside ASCII is written by its code point  *)
(* ("U+0663"). An Optional[T] value is <<>> for None and <<v>> for a       *)
(* present v.                                                              *)
(*                                                                         *)
(* The handlers are plain functions, which FastAPI runs on a thread pool:  *)
(* requests are handled concurrently, each in its own database session.    *)
(* Every round trip of a handler to the database is one step of the model, *)
(* taken on the committed tables (each statement sees what is committed    *)
(* when it runs); a request between two of its round trips waits in        *)
(* "pending".                                                              *)
(***************************************************************************)
EXTENDS Integers, Sequences, FiniteSets, Bags, TLC

VARIABLES users, records, now, issued, pending, resp

vars == <<users, records, now, issued, pending, resp>>

(***************************************************************************)
(* Bound of the model: the last minute the clock reaches.                  *)
MaxClock == 2
(* Bound of the model: the requests between two round trips at once.       *)
MaxPending == 2
(* Bound of the model: the ids uuid4 is asked for.                         *)
MaxUuids == 2

(***************************************************************************)
(* Optional values.                                                        *)
(***************************************************************************)
None == <<>>
Some(v) == <<v>>
IsNone(o) == Len(o) = 0
Val(o) == o[1]

(***************************************************************************)
(* Character classes used by the regular expressions of schemas.py.        *)
(***************************************************************************)
Upper == {"A", "B", "C", "D", "E", "F", "G", "H", "I", "J", "K", "L", "M",
          "N", "O", "P", "Q", "R", "S", "T", "U", "V", "W", "X", "Y", "Z"}
Lower == {"a", "b", "c", "d", "e", "f", "g", "h", "i", "j", "k", "l", "m",
          "n", "o", "p", "q", "r", "s", "t", "u", "v", "w", "x", "y", "z"}
Range(s) == {s[i] : i \in 1..Len(s)}

(* [0-9]                                                                   *)
Digit == {"0", "1", "2", "3", "4", "5", "6", "7", "8", "9"}
(* The characters of Unicode category Nd (Unicode 14.0.0, the database of  *)
(* the interpreter): the ten digits of each script, in the order of their  *)
(* values 0 to 9.                                                          *)
DigitBlocks ==
    {<<"0", "1", "2", "3", "4", "5", "6", "7", "8", "9">>,
     <<"U+0660", "U+0661", "U+0662", "U+0663", "U+0664",
       "U+0665", "U+0666", "U+0667", "U+0668", "U+0669">>,
     <<"U+06F0", "U+06F1", "U+06F2", "U+06F3", "U+06F4",
       "U+06F5", "U+06F6", "U+06F7", "U+06F8", "U+06F9">>,
     <<"U+07C0", "U+07C1", "U+07C2", "U+07C3", "U+07C4",
       "U+07C5", "U+07C6", "U+07C7", "U+07C8", "U+07C9">>,
     <<"U+0966", "U+0967", "U+0968", "U+0969", "U+096A",
       "U+096B", "U+096C", "U+096D", "U+096E", "U+096F">>,
     <<"U+09E6", "U+09E7", "U+09E8", "U+09E9", "U+09EA",
       "U+09EB", "U+09EC", "U+09ED", "U+09EE", "U+09EF">>,
     <<"U+0A66", "U+0A67", "U+0A68", "U+0A69", "U+0A6A",
       "U+0A6B", "U+0A6C", "U+0A6D", "U+0A6E", "U+0A6F">>,
     <<"U+0AE6", "U+0AE7", "U+0AE8", "U+0AE9", "U+0AEA",
       "U+0AEB", "U+0AEC", "U+0AED", "U+0AEE", "U+0AEF">>,
     <<"U+0B66", "U+0B67", "U+0B68", "U+0B69", "U+0B6A",
       "U+0B6B", "U+0B6C", "U+0B6D", "U+0B6E", "U+0B6F">>,
     <<"U+0BE6", "U+0BE7", "U+0BE8", "U+0BE9", "U+0BEA",
       "U+0BEB", "U+0BEC", "U+0BED", "U+0BEE", "U+0BEF">>,
     <<"U+0C66", "U+0C67", "U+0C68", "U+0C69", "U+0C6A",
       "U+0C6B", "U+0C6C", "U+0C6D", "U+0C6E", "U+0C6F">>,
     <<"U+0CE6", "U+0CE7", "U+0CE8", "U+0CE9", "U+0CEA",
       "U+0CEB", "U+0CEC", "U+0CED", "U+0CEE", "U+0CEF">>,
     <<"U+0D66", "U+0D67", "U+0D68", "U+0D69", "U+0D6A",
       "U+0D6B", "U+0D6C", "U+0D6D", "U+0D6E", "U+0D6F">>,
     <<"U+0DE6", "U+0DE7", "U+0DE8", "U+0DE9", "U+0DEA",
       "U+0DEB", "U+0DEC", "U+0DED", "U+0DEE", "U+0DEF">>,
     <<"U+0E50", "U+0E51", "U+0E52", "U+0E53", "U+0E54",
       "U+0E55", "U+0E56", "U+0E57", "U+0E58", "U+0E59">>,
     <<"U+0ED0", "U+0ED1", "U+0ED2", "U+0ED3", "U+0ED4",
       "U+0ED5", "U+0ED6", "U+0ED7", "U+0ED8", "U+0ED9">>,
     <<"U+0F20", "U+0F21", "U+0F22", "U+0F23", "U+0F24",
       "U+0F25", "U+0F26", "U+0F27", "U+0F28", "U+0F29">>,
     <<"U+1040", "U+1041", "U+1042", "U+1043", "U+1044",
       "U+1045", "U+1046", "U+1047", "U+1048", "U+1049">>,
     <<"U+1090", "U+1091", "U+1092", "U+1093", "U+1094",
       "U+1095", "U+1096", "U+1097", "U+1098", "U+1099">>,
     <<"U+17E0", "U+17E1", "U+17E2", "U+17E3", "U+17E4",
       "U+17E5", "U+17E6", "U+17E7", "U+17E8", "U+17E9">>,
     <<"U+1810", "U+1811", "U+1812", "U+1813", "U+1814",
       "U+1815", "U+1816", "U+1817", "U+1818", "U+1819">>,
     <<"U+1946", "U+1947", "U+1948", "U+1949", "U+194A",
       "U+194B", "U+194C", "U+194D", "U+194E", "U+194F">>,
     <<"U+19D0", "U+19D1", "U+19D2", "U+19D3", "U+19D4",
       "U+19D5", "U+19D6", "U+19D7", "U+19D8", "U+19D9">>,
     <<"U+1A80", "U+1A81", "U+1A82", "U+1A83", "U+1A84",
       "U+1A85", "U+1A86", "U+1A87", "U+1A88", "U+1A89">>,
     <<"U+1A90", "U+1A91", "U+1A92", "U+1A93", "U+1A94",
       "U+1A95", "U+1A96", "U+1A97", "U+1A98", "U+1A99">>,
     <<"U+1B50", "U+1B51", "U+1B52", "U+1B53", "U+1B54",
       "U+1B55", "U+1B56", "U+1B57", "U+1B58", "U+1B59">>,
     <<"U+1BB0", "U+1BB1", "U+1BB2", "U+1BB3", "U+1BB4",
       "U+1BB5", "U+1BB6", "U+1BB7", "U+1BB8", "U+1BB9">>,
     <<"U+1C40", "U+1C41", "U+1C42", "U+1C43", "U+1C44",
       "U+1C45", "U+1C46", "U+1C47", "U+1C48", "U+1C49">>,
     <<"U+1C50", "U+1C51", "U+1C52", "U+1C53", "U+1C54",
       "U+1C55", "U+1C56", "U+1C57", "U+1C58", "U+1C59">>,
     <<"U+A620", "U+A621", "U+A622", "U+A623", "U+A624",
       "U+A625", "U+A626", "U+A627", "U+A628", "U+A629">>,
     <<"U+A8D0", "U+A8D1", "U+A8D2", "U+A8D3", "U+A8D4",
       "U+A8D5", "U+A8D6", "U+A8D7", "U+A8D8", "U+A8D9">>,
     <<"U+A900", "U+A901", "U+A902", "U+A903", "U+A904",
       "U+A905", "U+A906", "U+A907", "U+A908", "U+A909">>,
     <<"U+A9D0", "U+A9D1", "U+A9D2", "U+A9D3", "U+A9D4",
       "U+A9D5", "U+A9D6", "U+A9D7", "U+A9D8", "U+A9D9">>,
     <<"U+A9F0", "U+A9F1", "U+A9F2", "U+A9F3", "U+A9F4",
       "U+A9F5", "U+A9F6", "U+A9F7", "U+A9F8", "U+A9F9">>,
     <<"U+AA50", "U+AA51", "U+AA52", "U+AA53", "U+AA54",
       "U+AA55", "U+AA56", "U+AA57", "U+AA58", "U+AA59">>,
     <<"U+ABF0", "U+ABF1", "U+ABF2", "U+ABF3", "U+ABF4",
       "U+ABF5", "U+ABF6", "U+ABF7", "U+ABF8", "U+ABF9">>,
     <<"U+FF10", "U+FF11", "U+FF12", "U+FF13", "U+FF14",
       "U+FF15", "U+FF16", "U+FF17", "U+FF18", "U+FF19">>,
     <<"U+104A0", "U+104A1", "U+104A2", "U+104A3", "U+104A4",
       "U+104A5", "U+104A6", "U+104A7", "U+104A8", "U+104A9">>,
     <<"U+10D30", "U+10D31", "U+10D32", "U+10D33", "U+10D34",
       "U+10D35", "U+10D36", "U+10D37", "U+10D38", "U+10D39">>,
     <<"U+11066", "U+11067", "U+11068", "U+11069", "U+1106A",
       "U+1106B", "U+1106C", "U+1106D", "U+1106E", "U+1106F">>,
     <<"U+110F0", "U+110F1", "U+110F2", "U+110F3", "U+110F4",
       "U+110F5", "U+110F6", "U+110F7", "U+110F8", "U+110F9">>,
     <<"U+11136", "U+11137", "U+11138", "U+11139", "U+1113A",
       "U+1113B", "U+1113C", "U+1113D", "U+1113E", "U+1113F">>,
     <<"U+111D0", "U+111D1", "U+111D2", "U+111D3", "U+111D4",
       "U+111D5", "U+111D6", "U+111D7", "U+111D8", "U+111D9">>,
     <<"U+112F0", "U+112F1", "U+112F2", "U+112F3", "U+112F4",
       "U+112F5", "U+112F6", "U+112F7", "U+112F8", "U+112F9">>,
     <<"U+11450", "U+11451", "U+11452", "U+11453", "U+11454",
       "U+11455", "U+11456", "U+11457", "U+11458", "U+11459">>,
     <<"U+114D0", "U+114D1", "U+114D2", "U+114D3", "U+114D4",
       "U+114D5", "U+114D6", "U+114D7", "U+114D8", "U+114D9">>,
     <<"U+11650", "U+11651", "U+11652", "U+11653", "U+11654",
       "U+11655", "U+11656", "U+11657", "U+11658", "U+11659">>,
     <<"U+116C0", "U+116C1", "U+116C2", "U+116C3", "U+116C4",
       "U+116C5", "U+116C6", "U+116C7", "U+116C8", "U+116C9">>,
     <<"U+11730", "U+11731", "U+11732", "U+11733", "U+11734",
       "U+11735", "U+11736", "U+11737", "U+11738", "U+11739">>,
     <<"U+118E0", "U+118E1", "U+118E2", "U+118E3", "U+118E4",
       "U+118E5", "U+118E6", "U+118E7", "U+118E8", "U+118E9">>,
     <<"U+11950", "U+11951", "U+11952", "U+11953", "U+11954",
       "U+11955", "U+11956", "U+11957", "U+11958", "U+11959">>,
     <<"U+11C50", "U+11C51", "U+11C52", "U+11C53", "U+11C54",
       "U+11C55", "U+11C56", "U+11C57", "U+11C58", "U+11C59">>,
     <<"U+11D50", "U+11D51", "U+11D52", "U+11D53", "U+11D54",
       "U+11D55", "U+11D56", "U+11D57", "U+11D58", "U+11D59">>,
     <<"U+11DA0", "U+11DA1", "U+11DA2", "U+11DA3", "U+11DA4",
       "U+11DA5", "U+11DA6", "U+11DA7", "U+11DA8", "U+11DA9">>,
     <<"U+16A60", "U+16A61", "U+16A62", "U+16A63", "U+16A64",
       "U+16A65", "U+16A66", "U+16A67", "U+16A68", "U+16A69">>,
     <<"U+16AC0", "U+16AC1", "U+16AC2", "U+16AC3", "U+16AC4",
       "U+16AC5", "U+16AC6", "U+16AC7", "U+16AC8", "U+16AC9">>,
     <<"U+16B50", "U+16B51", "U+16B52", "U+16B53", "U+16B54",
       "U+16B55", "U+16B56", "U+16B57", "U+16B58", "U+16B59">>,
     <<"U+1D7CE", "U+1D7CF", "U+1D7D0", "U+1D7D1", "U+1D7D2",
       "U+1D7D3", "U+1D7D4", "U+1D7D5", "U+1D7D6", "U+1D7D7">>,
     <<"U+1D7D8", "U+1D7D9", "U+1D7DA", "U+1D7DB", "U+1D7DC",
       "U+1D7DD", "U+1D7DE", "U+1D7DF", "U+1D7E0", "U+1D7E1">>,
     <<"U+1D7E2", "U+1D7E3", "U+1D7E4", "U+1D7E5", "U+1D7E6",
       "U+1D7E7", "U+1D7E8", "U+1D7E9", "U+1D7EA", "U+1D7EB">>,
     <<"U+1D7EC", "U+1D7ED", "U+1D7EE", "U+1D7EF", "U+1D7F0",
       "U+1D7F1", "U+1D7F2", "U+1D7F3", "U+1D7F4", "U+1D7F5">>,
     <<"U+1D7F6", "U+1D7F7", "U+1D7F8", "U+1D7F9", "U+1D7FA",
       "U+1D7FB", "U+1D7FC", "U+1D7FD", "U+1D7FE", "U+1D7FF">>,
     <<"U+1E140", "U+1E141", "U+1E142", "U+1E143", "U+1E144",
       "U+1E145", "U+1E146", "U+1E147", "U+1E148", "U+1E149">>,
     <<"U+1E2F0", "U+1E2F1", "U+1E2F2", "U+1E2F3", "U+1E2F4",
       "U+1E2F5", "U+1E2F6", "U+1E2F7", "U+1E2F8", "U+1E2F9">>,
     <<"U+1E950", "U+1E951", "U+1E952", "U+1E953", "U+1E954",
       "U+1E955", "U+1E956", "U+1E957", "U+1E958", "U+1E959">>,
     <<"U+1FBF0", "U+1FBF1", "U+1FBF2", "U+1FBF3", "U+1FBF4",
       "U+1FBF5", "U+1FBF6", "U+1FBF7", "U+1FBF8", "U+1FBF9">>}
(* Decimal digits outside ASCII.                                          *)
NonAsciiDigit == UNION {Range(b) : b \in DigitBlocks} \ Digit
(* r"\d" on a str, and the digits int() reads: every decimal digit.        *)
DecimalDigit == Digit \cup NonAsciiDigit
UsernameChar == Upper \cup Lower \cup Digit \cup {"_", "-"}

(* re.compile(r"^[a-zA-Z0-9_-]{3,30}$").match(v): in Python "$" also      *)
(* matches just before a newline that ends the string.                     *)
UsernameCore(v) == Len(v) >= 3 /\ Len(v) <= 30 /\ Range(v) \subseteq UsernameChar
UsernameReMatch(v) ==
    \/ UsernameCore(v)
    \/ Len(v) >= 1 /\ v[Len(v)] = "\n" /\ UsernameCore(SubSeq(v, 1, Len(v) - 1))

PasswordMin == 8
PasswordMax == 72

(* _validate_password: TRUE when no ValueError is raised.                  *)
ValidatePassword(v) ==
    /\ Len(v) >= PasswordMin
    /\ Len(v) <= PasswordMax
    /\ Range(v) \cap Upper # {}
    /\ Range(v) \cap Lower # {}
    /\ Range(v) \cap DecimalDigit # {}

(* EmailStr: one "@", a non-empty local part, a dotted domain.             *)
AtPositions(e) == {i \in 1..Len(e) : e[i] = "@"}
ValidEmail(e) ==
    /\ Cardinality(AtPositions(e)) = 1
    /\ LET at == CHOOSE i \in AtPositions(e) : TRUE
       IN  /\ at > 1
           /\ at < Len(e)
           /\ \E j \in (at + 2)..(Len(e) - 1) : e[j] = "."

(* body.email.split("@")[0]: the text before the first "@" (all of it when *)
(* there is none).                                                         *)
LocalPart(e) ==
    IF AtPositions(e) = {} THEN e
    ELSE LET first == CHOOSE i \in AtPositions(e) :
                          \A j \in AtPositions(e) : i <= j
         IN  SubSeq(e, 1, first - 1)

(***************************************************************************)
(* schemas.py: request bodies accepted by validation.                      *)
(***************************************************************************)
UserRegisterValid(body) ==
    /\ ValidEmail(body.email)
    /\ ValidatePassword(body.password)
    /\ (IsNone(body.username) \/ UsernameReMatch(Val(body.username)))

UserLoginValid(body) ==
    /\ ValidEmail(body.email)
    /\ Len(body.password) >= 1
    /\ Len(body.password) <= PasswordMax

UserProfileUpdateValid(body) ==
    /\ \/ IsNone(body.username)
       \/ /\ Len(Val(body.username)) >= 3
          /\ Len(Val(body.username)) <= 30
          /\ UsernameReMatch(Val(body.username))
    /\ (IsNone(body.email) \/ ValidEmail(Val(body.email)))
    /\ (IsNone(body.age) \/ (Val(body.age) >= 1 /\ Val(body.age) <= 150))
    /\ (IsNone(body.health_issues) \/ Len(Val(body.health_issues)) <= 500)

HeartRateCreateValid(entry) == entry.bpm >= 30 /\ entry.bpm <= 250

HeartRateBulkDeleteValid(body) == Len(body.ids) >= 1 /\ Len(body.ids) <= 500

(***************************************************************************)
(* utils.py: passwords and tokens.                                         *)
(***************************************************************************)
Salts == {"s1"}

(* pwd_context.hash: a salted one-way hash; the salt travels in the hash.  *)
HashWith(salt, password) == [salt |-> salt, digest |-> <<salt, password>>]

VerifyPassword(plain, hashed) == hashed = HashWith(hashed.salt, plain)

(* ACCESS_TOKEN_EXPIRE_MINUTES: a positive integer from the environment.   *)
AccessTokenExpireMinutes == 1

DigitOf(d) == CASE d = 0 -> "0" [] d = 1 -> "1" [] d = 2 -> "2" [] d = 3 -> "3"
                [] d = 4 -> "4" [] d = 5 -> "5" [] d = 6 -> "6" [] d = 7 -> "7"
                [] d = 8 -> "8" [] d = 9 -> "9"

(* str(n)                                                                  *)
RECURSIVE IntToStr(_)
IntToStr(n) == IF n < 0 THEN <<"-">> \o IntToStr(0 - n)
               ELSE IF n < 10 THEN <<DigitOf(n)>>
               ELSE Append(IntToStr(n \div 10), DigitOf(n % 10))

(* The value of a decimal digit: its place in the block of its script.     *)
ValueOf(c) == CHOOSE d \in 0..9 : \E b \in DigitBlocks : b[d + 1] = c

(* int(s) of a str, base 10. Every character outside ASCII that            *)
(* str.isspace accepts is read as a blank and every decimal digit as its   *)
(* ASCII digit; then white space around the number is dropped (of ASCII:   *)
(* blank, \t, \n, \v, \f, \r), a sign may lead, and single underscores    *)
(* may separate digits. More than 4300 digits are refused                 *)
(* (sys.get_int_max_str_digits). None stands for ValueError. LINE          *)
(* TABULATION is written by its code point. The separators U+001C to      *)
(* U+001F, which str.isspace accepts, are not dropped.                     *)
Whitespace ==
    {" ", "\t", "\n", "\r", "\f", "U+000B",
     "U+0085", "U+00A0", "U+1680", "U+2000", "U+2001", "U+2002",
     "U+2003", "U+2004", "U+2005", "U+2006", "U+2007", "U+2008",
     "U+2009", "U+200A", "U+2028", "U+2029", "U+202F", "U+205F",
     "U+3000"}

RECURSIVE LStrip(_)
LStrip(s) == IF Len(s) > 0 /\ s[1] \in Whitespace THEN LStrip(Tail(s)) ELSE s

RECURSIVE RStrip(_)
RStrip(s) == IF Len(s) > 0 /\ s[Len(s)] \in Whitespace
             THEN RStrip(SubSeq(s, 1, Len(s) - 1)) ELSE s

IntLiteral(d) ==
    /\ Len(d) >= 1
    /\ Range(d) \subseteq DecimalDigit \cup {"_"}
    /\ d[1] # "_"
    /\ d[Len(d)] # "_"
    /\ \A i \in 1..(Len(d) - 1) : ~(d[i] = "_" /\ d[i + 1] = "_")
    /\ Cardinality({i \in 1..Len(d) : d[i] # "_"}) <= 4300

RECURSIVE Magnitude(_)
Magnitude(d) ==
    IF Len(d) = 0 THEN 0
    ELSE IF d[Len(d)] = "_" THEN Magnitude(SubSeq(d, 1, Len(d) - 1))
    ELSE 10 * Magnitude(SubSeq(d, 1, Len(d) - 1)) + ValueOf(d[Len(d)])

StrToInt(s) ==
    LET t == RStrip(LStrip(s))
        signed == Len(t) > 0 /\ t[1] \in {"+", "-"}
        d == IF signed THEN Tail(t) ELSE t
    IN  IF ~IntLiteral(d) THEN None
        ELSE IF signed /\ t[1] = "-" THEN Some(0 - Magnitude(d))
        ELSE Some(Magnitude(d))

(* A bearer credential as the server sees it: no header at all, text that  *)
(* is no JWT, or a JWT with a signature (made with SECRET_KEY or not), an  *)
(* optional "sub" claim (a string) and an "exp" claim.                     *)
NoToken == [form |-> "absent"]
Garbage == [form |-> "garbage"]
Jwt(signed, sub, exp) == [form |-> "jwt", signed |-> signed, sub |-> sub, exp |-> exp]

CreateAccessToken(user_id) ==
    Jwt(TRUE, Some(IntToStr(user_id)), now + AccessTokenExpireMinutes)

(* Mutant: the expiry is not verified.                                      *)
VerifyAccessToken_NoExpiry(token) ==
    IF token.form # "jwt" THEN <<>>
    ELSE IF ~token.signed THEN <<>>
    ELSE IF Len(token.sub) = 0 THEN <<>>
    ELSE StrToInt(token.sub[1])

(* verify_access_token: the user id, or None. jwt.decode raises JWTError   *)
(* for a malformed token, a bad signature and an expiry in the past;       *)
(* int() raises ValueError for a "sub" that is no number.                  *)
VerifyAccessToken(token) ==
    IF token.form # "jwt" THEN None
    ELSE IF ~token.signed THEN None
    ELSE IF token.exp < now THEN None
    ELSE IF IsNone(token.sub) THEN None
    ELSE StrToInt(Val(token.sub))

(* oauth2_scheme then get_current_user_id: the authenticated user id, or   *)
(* None when the request is answered 401.                                  *)
GetCurrentUserId(token) ==
    IF token.form = "absent" THEN None ELSE VerifyAccessToken(token)

(***************************************************************************)
(* Responses. "auth" is the WWW-Authenticate header ("" when not sent),    *)
(* "tok" the credential the request carried, "uid" the authenticated       *)
(* caller (0 when none), "req" the request's input, "body" the payload     *)
(* (Empty when there is none).                                             *)
(***************************************************************************)
Empty == [empty |-> TRUE]
Response(op, status, detail, auth, tok, uid, req, body) ==
    [op |-> op, status |-> status, detail |-> detail, auth |-> auth,
     tok |-> tok, uid |-> uid, req |-> req, body |-> body]

(* OAuth2PasswordBearer answers a request without a bearer credential with *)
(* "Not authenticated"; get_current_user_id answers a credential that does *)
(* not verify with "Invalid or expired token". Both send the header.       *)
Unauthorized(op, token) ==
    Response(op, 401,
             IF token.form = "absent" THEN "Not authenticated"
             ELSE "Invalid or expired token",
             "Bearer", token, 0, Empty, Empty)

ValidationError(op, token, uid) ==
    Response(op, 422, "Validation error", "", token, uid, Empty, Empty)

(* generic_exception_handler                                               *)
InternalError(op, token, uid, req) ==
    Response(op, 500, "An unexpected error occurred. Please try again later.",
             "", token, uid, req, Empty)

(***************************************************************************)
(* A request between two of its steps: the endpoint "op" at position "pc", *)
(* with its credential, caller and input, and "snap", what its session has *)
(* loaded. FastAPI runs the dependency get_current_user_id and the handler *)
(* as two calls on the thread pool, so a request whose credential has been *)
(* verified waits ("authenticated") before its handler starts; after that  *)
(* it waits between two round trips of the handler to the database.        *)
(***************************************************************************)
InFlight(op, pc, tok, uid, req, snap) ==
    [op |-> op, pc |-> pc, tok |-> tok, uid |-> uid, req |-> req, snap |-> snap]

Waiting == BagToSet(pending)
Room == BagCardinality(pending) < MaxPending
Suspend(q) == pending' = pending (+) SetToBag({q})
Resume(p, q) == pending' = (pending (-) SetToBag({p})) (+) SetToBag({q})
Finish(p) == pending' = pending (-) SetToBag({p})

(***************************************************************************)
(* models.py: the users table. Row ids are assigned in insertion order and *)
(* no handler deletes a user, so the table is the sequence of its rows.    *)
(***************************************************************************)
UserIds == 1..Len(users)

(* Mutant: only users.username carries a unique index.                     *)
UserUniqueViolation_UsernameOnly(tbl, id, username, email) ==
    \E j \in 1..Len(tbl) : j # id /\ tbl[j].username = username

(* The unique indexes on users.username and users.email, checked for the   *)
(* row "id" holding (username, email) against every other row.             *)
UserUniqueViolation(tbl, id, username, email) ==
    \E j \in 1..Len(tbl) :
        j # id /\ (tbl[j].username = username \/ tbl[j].email = email)

ProfileOf(u) == [username |-> u.username, email |-> u.email,
                 age |-> u.age, health_issues |-> u.health_issues]

(***************************************************************************)
(* Initial state: empty tables (Base.metadata.create_all), no request yet. *)
(***************************************************************************)
Init ==
    /\ users = <<>>
    /\ records = {}
    /\ now = 0
    /\ issued = 0
    /\ pending = EmptyBag
    /\ resp = Response("none", 0, "", "", NoToken, 0, Empty, Empty)

(* The server's clock advances.                                            *)
Tick ==
    /\ now < MaxClock
    /\ now' = now + 1
    /\ UNCHANGED <<users, records, issued, pending, resp>>

(***************************************************************************)
(* POST /register: validation, then INSERT and COMMIT; on IntegrityError   *)
(* rollback and 409. After the commit the request waits for db.refresh.    *)
(***************************************************************************)
Register(body, salt) ==
    /\ UNCHANGED <<records, now, issued>>
    /\ IF ~UserRegisterValid(body)
       THEN /\ resp' = ValidationError("register", NoToken, 0)
            /\ UNCHANGED <<users, pending>>
       ELSE LET username == IF ~IsNone(body.username) /\ Len(Val(body.username)) > 0
                            THEN Val(body.username)
                            ELSE LocalPart(body.email)
                id == Len(users) + 1
                user == [id |-> id, username |-> username, email |-> body.email,
                         hashed_password |-> HashWith(salt, body.password),
                         age |-> None, health_issues |-> None]
            IN  IF UserUniqueViolation(users, id, username, body.email)
                THEN /\ resp' = Response("register", 409,
                                         "Email or username already registered",
                                         "", NoToken, 0, body, Empty)
                     /\ UNCHANGED <<users, pending>>
                ELSE /\ Room
                     /\ users' = Append(users, user)
                     /\ Suspend(InFlight("register", "committed", NoToken, id,
                                         body, Empty))
                     /\ UNCHANGED resp

(* db.refresh(user), create_access_token and the response.                 *)
RegisterRefresh(p) ==
    /\ p \in Waiting /\ p.op = "register" /\ p.pc = "committed"
    /\ Finish(p)
    /\ resp' = Response("register", 201, "User registered", "", NoToken, 0, p.req,
                        [username |-> users[p.uid].username,
                         access_token |-> CreateAccessToken(p.uid),
                         token_type |-> "bearer"])
    /\ UNCHANGED <<users, records, now, issued>>

(***************************************************************************)
(* POST /login                                                             *)
(***************************************************************************)
Login(body) ==
    /\ UNCHANGED <<users, records, now, issued, pending>>
    /\ IF ~UserLoginValid(body)
       THEN resp' = ValidationError("login", NoToken, 0)
       ELSE LET found == {i \in UserIds : users[i].email = body.email}
            IN  IF found = {} \/ \A i \in found :
                                    ~VerifyPassword(body.password, users[i].hashed_password)
                THEN resp' = Response("login", 401, "Invalid email or password",
                                      "", NoToken, 0, body, Empty)
                ELSE LET user == users[CHOOSE i \in found : TRUE]
                     IN  resp' = Response("login", 200, "", "", NoToken, 0, body,
                                          [access_token |-> CreateAccessToken(user.id),
                                           token_type |-> "bearer",
                                           username |-> user.username,
                                           email |-> user.email,
                                           age |-> user.age,
                                           health_issues |-> user.health_issues])

(***************************************************************************)
(* The first step of a request to an endpoint that requires                *)
(* authentication: oauth2_scheme and get_current_user_id answer 401, else  *)
(* the validation of the request answers 422, else the request waits for   *)
(* its handler.                                                            *)
(***************************************************************************)
RequestValid(op, req) ==
    CASE op = "update_profile" -> UserProfileUpdateValid(req)
      [] op = "create" -> HeartRateCreateValid(req)
      [] op = "list" -> req.limit >= 1 /\ req.limit <= 5000 /\ req.offset >= 0
      [] op = "batch_delete" -> HeartRateBulkDeleteValid(req)
      [] OTHER -> TRUE

Authenticate(op, token, req) ==
    /\ UNCHANGED <<users, records, now, issued>>
    /\ LET user_id == GetCurrentUserId(token)
       IN  IF IsNone(user_id)
           THEN /\ resp' = Unauthorized(op, token)
                /\ UNCHANGED pending
           ELSE IF ~RequestValid(op, req)
           THEN /\ resp' = ValidationError(op, token, Val(user_id))
                /\ UNCHANGED pending
           ELSE /\ Room
                /\ Suspend(InFlight(op, "authenticated", token, Val(user_id),
                                    req, Empty))
                /\ UNCHANGED resp

(***************************************************************************)
(* GET /me: the handler, one SELECT.                                       *)
(***************************************************************************)
GetProfile(p) ==
    /\ p \in Waiting /\ p.op = "get_profile" /\ p.pc = "authenticated"
    /\ Finish(p)
    /\ resp' = IF p.uid \notin UserIds
               THEN Response("get_profile", 404, "User not found", "",
                             p.tok, p.uid, p.req, Empty)
               ELSE Response("get_profile", 200, "", "", p.tok, p.uid, p.req,
                             ProfileOf(users[p.uid]))
    /\ UNCHANGED <<users, records, now, issued>>

(***************************************************************************)
(* PUT /me: the handler. The SELECT of the caller's row; then the          *)
(* assignments and the COMMIT, which writes the attributes whose value     *)
(* differs from the one loaded; then db.refresh and the response.          *)
(***************************************************************************)
(* Mutant: health_issues is assigned whether supplied or not.              *)
UpdatedUser_OverwritesHealth(user, body) ==
    [user EXCEPT
        !.username = IF Len(body.username) # 0 THEN body.username[1] ELSE @,
        !.email = IF Len(body.email) # 0 THEN body.email[1] ELSE @,
        !.age = IF Len(body.age) # 0 THEN body.age ELSE @,
        !.health_issues = body.health_issues]

(* The assignments of update_profile on the loaded object: each supplied   *)
(* field replaces the loaded one.                                          *)
UpdatedUser(user, body) ==
    [user EXCEPT
        !.username = IF ~IsNone(body.username) THEN Val(body.username) ELSE @,
        !.email = IF ~IsNone(body.email) THEN Val(body.email) ELSE @,
        !.age = IF ~IsNone(body.age) THEN body.age ELSE @,
        !.health_issues = IF ~IsNone(body.health_issues) THEN body.health_issues ELSE @]

(* The UPDATE of db.commit(): on the stored row, the columns whose         *)
(* attribute no longer has the loaded value take the attribute's value.    *)
Flush(row, loaded, obj) ==
    [row EXCEPT
        !.username = IF obj.username # loaded.username THEN obj.username ELSE @,
        !.email = IF obj.email # loaded.email THEN obj.email ELSE @,
        !.age = IF obj.age # loaded.age THEN obj.age ELSE @,
        !.health_issues = IF obj.health_issues # loaded.health_issues
                          THEN obj.health_issues ELSE @]

UpdateProfile(p) ==
    /\ p \in Waiting /\ p.op = "update_profile" /\ p.pc = "authenticated"
    /\ UNCHANGED <<users, records, now, issued>>
    /\ IF p.uid \notin UserIds
       THEN /\ Finish(p)
            /\ resp' = Response("update_profile", 404, "User not found", "",
                                p.tok, p.uid, p.req, Empty)
       ELSE /\ Resume(p, [p EXCEPT !.pc = "loaded", !.snap = users[p.uid]])
            /\ UNCHANGED resp

(* db.commit(), and db.rollback() with 400 on IntegrityError.              *)
UpdateCommit(p) ==
    /\ p \in Waiting /\ p.op = "update_profile" /\ p.pc = "loaded"
    /\ UNCHANGED <<records, now, issued>>
    /\ LET obj == UpdatedUser(p.snap, p.req)
           user == Flush(users[p.uid], p.snap, obj)
       IN  IF obj # p.snap
              /\ UserUniqueViolation(users, user.id, user.username, user.email)
           THEN /\ Finish(p)
                /\ resp' = Response("update_profile", 400,
                                    "Email or username already taken", "",
                                    p.tok, p.uid, p.req, Empty)
                /\ UNCHANGED users
           ELSE /\ users' = [users EXCEPT ![p.uid] = user]
                /\ Resume(p, [p EXCEPT !.pc = "committed"])
                /\ UNCHANGED resp

(* db.refresh(user) and the response.                                      *)
UpdateRefresh(p) ==
    /\ p \in Waiting /\ p.op = "update_profile" /\ p.pc = "committed"
    /\ Finish(p)
    /\ resp' = Response("update_profile", 200, "", "", p.tok, p.uid, p.req,
                        ProfileOf(users[p.uid]))
    /\ UNCHANGED <<users, records, now, issued>>

(***************************************************************************)
(* POST /logout                                                            *)
(***************************************************************************)
Logout(p) ==
    /\ p \in Waiting /\ p.op = "logout" /\ p.pc = "authenticated"
    /\ Finish(p)
    /\ resp' = Response("logout", 200, "Logged out successfully", "",
                        p.tok, p.uid, p.req, Empty)
    /\ UNCHANGED <<users, records, now, issued>>

(***************************************************************************)
(* models.py: the heart_rate_records table, a set of rows whose primary    *)
(* key is "id".                                                            *)
(***************************************************************************)
HeartRateRow(id, user_id, bpm, recorded_at, created_at) ==
    [id |-> id, user_id |-> user_id, bpm |-> bpm,
     recorded_at |-> recorded_at, created_at |-> created_at]

(* Mutant: the id column carries no primary key.                           *)
PrimaryKeyViolation_NotEnforced(tbl, id) == FALSE

(* The primary key of heart_rate_records: an INSERT of a row whose id is   *)
(* already present, whoever owns it, raises IntegrityError at commit.      *)
PrimaryKeyViolation(tbl, id) == \E r \in tbl : r.id = id

(* ForeignKey("users.id"): the owner of an inserted row is no stored user. *)
ForeignKeyViolation(utbl, user_id) == user_id \notin 1..Len(utbl)

(* Whether the database enforces the foreign key is the deployment's: an   *)
(* INSERT that breaks it may raise IntegrityError or may not.              *)
ForeignKeyOutcomes(utbl, user_id) ==
    IF ForeignKeyViolation(utbl, user_id) THEN {TRUE, FALSE} ELSE {FALSE}

(* filter(HeartRateRecord.id == id, HeartRateRecord.user_id == user_id)    *)
OwnedWithId(tbl, id, user_id) == {r \in tbl : r.id = id /\ r.user_id = user_id}

(* filter(HeartRateRecord.user_id == user_id)                              *)
OwnedBy(tbl, user_id) == {r \in tbl : r.user_id = user_id}

(* The row with a primary key: what db.refresh re-reads and what           *)
(* db.delete removes (the statement names the primary key alone).          *)
WithId(tbl, id) == {r \in tbl : r.id = id}

(* A client timestamp: wall-clock hours "t" and an optional UTC offset     *)
(* "tz" in hours. A naive one is taken as UTC (replace(tzinfo=utc)), an    *)
(* aware one is converted (astimezone(utc)).                               *)
Naive(t) == [t |-> t, tz |-> None]
Aware(t, off) == [t |-> t, tz |-> Some(off)]
ToUtc(dt) == IF IsNone(dt.tz) THEN dt.t ELSE dt.t - Val(dt.tz)

(* HeartRateResponse: the fields of a row that are sent back.              *)
HeartRateResponse(r) == [id |-> r.id, bpm |-> r.bpm,
                         recorded_at |-> r.recorded_at, created_at |-> r.created_at]

(* str(uuid.uuid4()): the n-th value generated; no two are equal.          *)
Uuid4(n) == CASE n = 1 -> "u1" [] n = 2 -> "u2" [] n = 3 -> "u3" [] n = 4 -> "u4"

(* entry.id or ...: whether the client's id is used.                       *)
ClientId(entry) == ~IsNone(entry.id) /\ Val(entry.id) # ""

(* entry.id or str(uuid.uuid4())                                           *)
RecordId(entry, uuid) == IF ClientId(entry) THEN Val(entry.id) ELSE uuid

(* Mutant: the conflict branch returns whatever row holds the id.          *)
CreateConflictResponse_AnyOwner(tbl, token, user_id, req) ==
    IF \E r \in tbl : r.id = req.id
    THEN Response("create", 201, "", "", token, user_id, req,
                  [id |-> req.id, bpm |-> (CHOOSE r \in tbl : r.id = req.id).bpm,
                   recorded_at |-> (CHOOSE r \in tbl : r.id = req.id).recorded_at,
                   created_at |-> (CHOOSE r \in tbl : r.id = req.id).created_at])
    ELSE Response("create", 409, "Duplicate entry", "", token, user_id, req,
                  [empty |-> TRUE])

(* The except-IntegrityError branch of create_heart_rate, after rollback:  *)
(* the caller's own row with that id is returned, else 409.                *)
CreateConflictResponse(tbl, token, user_id, req) ==
    LET existing == OwnedWithId(tbl, req.id, user_id)
    IN  IF existing # {}
        THEN Response("create", 201, "", "", token, user_id, req,
                      HeartRateResponse(CHOOSE r \in existing : TRUE))
        ELSE Response("create", 409, "Duplicate entry", "", token, user_id, req,
                      Empty)

(***************************************************************************)
(* POST /heart-rate: the handler up to the INSERT and COMMIT. After a      *)
(* commit the request waits for db.refresh; after an IntegrityError it is  *)
(* rolled back and waits for the lookup by (id, owner). "snap" then notes  *)
(* whom the row it collided with belonged to (0: there was none), which    *)
(* the handler itself does not know.                                       *)
(***************************************************************************)
CreateHeartRate(p) ==
    /\ p \in Waiting /\ p.op = "create" /\ p.pc = "authenticated"
    /\ UNCHANGED <<users, now, resp>>
    /\ IF ClientId(p.req) THEN UNCHANGED issued
       ELSE issued < MaxUuids /\ issued' = issued + 1
    /\ LET entry == p.req
           id == RecordId(entry, Uuid4(issued + 1))
           req == [id |-> id, entry |-> entry]
           record == HeartRateRow(id, p.uid, entry.bpm,
                                  ToUtc(entry.recorded_at), now)
       IN  \E enforced \in ForeignKeyOutcomes(users, p.uid) :
              IF PrimaryKeyViolation(records, id) \/ enforced
              THEN /\ Resume(p, InFlight("create", "lookup", p.tok, p.uid, req,
                             [owner |-> IF WithId(records, id) = {} THEN 0
                                        ELSE (CHOOSE r \in WithId(records, id) :
                                                 TRUE).user_id]))
                   /\ UNCHANGED records
              ELSE /\ records' = records \cup {record}
                   /\ Resume(p, InFlight("create", "refresh", p.tok, p.uid, req,
                                         Empty))

(* db.refresh(record) and the response: the row is read again by its       *)
(* primary key; when it is gone the refresh raises and the request ends in *)
(* the generic 500.                                                        *)
CreateRefresh(p) ==
    /\ p \in Waiting /\ p.op = "create" /\ p.pc = "refresh"
    /\ Finish(p)
    /\ resp' = IF WithId(records, p.req.id) = {}
               THEN InternalError("create", p.tok, p.uid, p.req)
               ELSE Response("create", 201, "", "", p.tok, p.uid, p.req,
                             HeartRateResponse(CHOOSE r \in WithId(records, p.req.id) :
                                                  TRUE))
    /\ UNCHANGED <<users, records, now, issued>>

(* The query by (id, user_id) after the rollback, and the response.        *)
CreateLookup(p) ==
    /\ p \in Waiting /\ p.op = "create" /\ p.pc = "lookup"
    /\ Finish(p)
    /\ resp' = CreateConflictResponse(records, p.tok, p.uid, p.req)
    /\ UNCHANGED <<users, records, now, issued>>

(***************************************************************************)
(* GET /heart-rate                                                         *)
(***************************************************************************)
(* Mutant: the rows are ordered by recorded_at ascending.                   *)
OrderByRecordedAtDesc_Ascending(rows) ==
    {s \in [1..Cardinality(rows) -> rows] :
        /\ \A i, j \in 1..Cardinality(rows) : i # j => s[i] # s[j]
        /\ \A i, j \in 1..Cardinality(rows) :
              i < j => s[i].recorded_at <= s[j].recorded_at}

(* order_by(recorded_at.desc()): every order of the rows in which          *)
(* recorded_at never increases; the database picks among equal ones.       *)
OrderByRecordedAtDesc(rows) ==
    {s \in [1..Cardinality(rows) -> rows] :
        /\ \A i, j \in 1..Cardinality(rows) : i # j => s[i] # s[j]
        /\ \A i, j \in 1..Cardinality(rows) :
              i < j => s[i].recorded_at >= s[j].recorded_at}

(* .offset(offset).limit(limit)                                            *)
OffsetLimit(s, offset, limit) ==
    IF offset >= Len(s) THEN <<>>
    ELSE SubSeq(s, offset + 1, IF offset + limit < Len(s) THEN offset + limit ELSE Len(s))

ListHeartRate(p) ==
    /\ p \in Waiting /\ p.op = "list" /\ p.pc = "authenticated"
    /\ Finish(p)
    /\ UNCHANGED <<users, records, now, issued>>
    /\ \E s \in OrderByRecordedAtDesc(OwnedBy(records, p.uid)) :
          LET page == OffsetLimit(s, p.req.offset, p.req.limit)
          IN  resp' = Response("list", 200, "", "", p.tok, p.uid, p.req,
                               [items |-> [i \in 1..Len(page) |->
                                               HeartRateResponse(page[i])]])

(***************************************************************************)
(* DELETE /heart-rate/{entry_id}: the handler. The SELECT by (id, owner);  *)
(* when it finds a row the request waits for the DELETE and COMMIT.        *)
(***************************************************************************)
DeleteHeartRate(p) ==
    /\ p \in Waiting /\ p.op = "delete" /\ p.pc = "authenticated"
    /\ UNCHANGED <<users, records, now, issued>>
    /\ IF OwnedWithId(records, p.req.entry_id, p.uid) = {}
       THEN /\ Finish(p)
            /\ resp' = Response("delete", 404, "Record not found", "",
                                p.tok, p.uid, p.req, Empty)
       ELSE /\ Resume(p, [p EXCEPT !.pc = "selected"])
            /\ UNCHANGED resp

(* db.delete(record); db.commit(): DELETE ... WHERE id = <the primary key  *)
(* of the loaded row>. A statement that matches no row is only warned      *)
(* about, and the request is answered 204.                                 *)
DeleteCommit(p) ==
    /\ p \in Waiting /\ p.op = "delete" /\ p.pc = "selected"
    /\ Finish(p)
    /\ records' = records \ WithId(records, p.req.entry_id)
    /\ resp' = Response("delete", 204, "", "", p.tok, p.uid, p.req, Empty)
    /\ UNCHANGED <<users, now, issued>>

(***************************************************************************)
(* POST /heart-rate/batch-delete: the handler, one DELETE statement and    *)
(* its COMMIT.                                                             *)
(***************************************************************************)
(* Mutant: the bulk delete forgets the owner.                               *)
BatchTargets_AnyOwner(tbl, ids, user_id) == {r \in tbl : r.id \in {ids[i] : i \in 1..Len(ids)}}

(* filter(id.in_(ids), user_id == user_id): the rows a bulk delete removes *)
BatchTargets(tbl, ids, user_id) ==
    {r \in tbl : r.id \in Range(ids) /\ r.user_id = user_id}

BatchDeleteHeartRate(p) ==
    /\ p \in Waiting /\ p.op = "batch_delete" /\ p.pc = "authenticated"
    /\ Finish(p)
    /\ UNCHANGED <<users, now, issued>>
    /\ LET gone == BatchTargets(records, p.req.ids, p.uid)
       IN  /\ records' = records \ gone
           /\ resp' = Response("batch_delete", 200, "", "", p.tok, p.uid, p.req,
                               [deleted |-> Cardinality(gone)])

(***************************************************************************)
(* Requests the clients send.                                              *)
(***************************************************************************)
AliceEmail == <<"a", "l", "i", "c", "e", "@", "x", ".", "i", "o">>
DottedEmail == <<"a", ".", "b", "@", "x", ".", "i", "o">>
NotAnEmail == <<"b", "o", "b">>
Bob == <<"b", "o", "b">>
TooShort == <<"a", "l">>
GoodPassword == <<"A", "b", "c", "1", "2", "3", "4", "5">>
WeakPassword == <<"a", "b", "c", "1", "2", "3", "4", "5">>
ArabicPassword == <<"A", "b", "c", "d", "e", "f", "g", "U+0663">>
Flu == <<"f", "l", "u">>

Emails == {AliceEmail, DottedEmail}

RegisterBody(email, password, username) ==
    [email |-> email, password |-> password, username |-> username]
LoginBody(email, password) == [email |-> email, password |-> password]
UpdateBody(username, email, age, health_issues) ==
    [username |-> username, email |-> email, age |-> age,
     health_issues |-> health_issues]
NoUpdate == UpdateBody(None, None, None, None)
Entry(id, bpm, recorded_at) == [id |-> id, bpm |-> bpm, recorded_at |-> recorded_at]
Ids(ids) == [ids |-> ids]

(* The credentials a request may carry: none, text that is no token, a     *)
(* token signed with another key, and tokens this server issued to a       *)
(* registered user (CreateAccessToken at some earlier time): the one       *)
(* issued now, and those already expired.                                  *)
IssuedAt(user_id, iat) ==
    Jwt(TRUE, Some(IntToStr(user_id)), iat + AccessTokenExpireMinutes)
FreshTokens == {IssuedAt(u, now) : u \in UserIds}
ExpiredTokens ==
    {IssuedAt(u, iat) : u \in UserIds,
                        iat \in {i \in 0..now : i + AccessTokenExpireMinutes < now}}
ForgedToken == Jwt(FALSE, Some(IntToStr(1)), now + AccessTokenExpireMinutes)
BadTokens == {NoToken, Garbage, ForgedToken} \cup ExpiredTokens

(* The steps of the handlers, each taken by a waiting request.            *)
ResumeRegister == \E p \in Waiting : RegisterRefresh(p)
HandleGetProfile == \E p \in Waiting : GetProfile(p)
HandleUpdateProfile ==
    \E p \in Waiting : UpdateProfile(p) \/ UpdateCommit(p) \/ UpdateRefresh(p)
HandleLogout == \E p \in Waiting : Logout(p)
HandleCreate ==
    \E p \in Waiting : CreateHeartRate(p) \/ CreateRefresh(p) \/ CreateLookup(p)
HandleList == \E p \in Waiting : ListHeartRate(p)
HandleDelete == \E p \in Waiting : DeleteHeartRate(p) \/ DeleteCommit(p)
HandleBatchDelete == \E p \in Waiting : BatchDeleteHeartRate(p)

(***************************************************************************)
(* Spec: every endpoint that requires authentication, called with every    *)
(* kind of refused credential as the clock moves, beside the registration, *)
(* login and posts that fill the tables. The handlers of the other         *)
(* endpoints are in the specifications that follow.                        *)
(***************************************************************************)
Calls ==
    {<<"get_profile", Empty>>, <<"update_profile", NoUpdate>>, <<"logout", Empty>>,
     <<"create", Entry(Some("a"), 60, Naive(1))>>,
     <<"list", [limit |-> 1, offset |-> 0]>>,
     <<"delete", [entry_id |-> "a"]>>, <<"batch_delete", Ids(<<"a">>)>>}

Next ==
    \/ Tick
    \/ Register(RegisterBody(AliceEmail, GoodPassword, None), "s1")
    \/ ResumeRegister
    \/ \E password \in {GoodPassword, WeakPassword} :
          Login(LoginBody(AliceEmail, password))
    \/ \E token \in BadTokens : \E call \in Calls :
          Authenticate(call[1], token, call[2])
    \/ \E token \in FreshTokens :
          Authenticate("create", token, Entry(Some("a"), 60, Naive(1)))
    \/ HandleCreate

Spec == Init /\ [][Next]_vars

(***************************************************************************)
(* SpecRetry: one user who posts, retries and deletes the id "a" as the    *)
(* clock moves.                                                            *)
(***************************************************************************)
Retries == {Entry(Some("a"), 60, Naive(1)), Entry(Some("a"), 61, Aware(2, 1))}

NextRetry ==
    \/ Tick
    \/ Register(RegisterBody(AliceEmail, GoodPassword, None), "s1")
    \/ ResumeRegister
    \/ \E token \in FreshTokens : \E entry \in Retries :
          Authenticate("create", token, entry)
    \/ HandleCreate
    \/ \E token \in FreshTokens : Authenticate("delete", token, [entry_id |-> "a"])
    \/ HandleDelete

SpecRetry == Init /\ [][NextRetry]_vars

(***************************************************************************)
(* SpecCreate: POST /heart-rate with client-supplied ids by two users,     *)
(* beside the requests that delete.                                        *)
(***************************************************************************)
Entries == {Entry(Some("a"), 60, Naive(1)), Entry(Some("a"), 29, Naive(1))}

NextCreate ==
    \/ \E email \in Emails : Register(RegisterBody(email, GoodPassword, None), "s1")
    \/ ResumeRegister
    \/ \E token \in FreshTokens : \E entry \in Entries :
          Authenticate("create", token, entry)
    \/ HandleCreate
    \/ \E token \in FreshTokens : Authenticate("delete", token, [entry_id |-> "a"])
    \/ HandleDelete
    \/ \E token \in FreshTokens : Authenticate("batch_delete", token, Ids(<<"a">>))
    \/ HandleBatchDelete

SpecCreate == Init /\ [][NextCreate]_vars

(***************************************************************************)
(* SpecDelete: batch deletes over records with client-supplied and         *)
(* generated ids.                                                          *)
(***************************************************************************)
DeleteEntries(user_id) ==
    IF user_id = 1 THEN {Entry(Some("a"), 60, Naive(1)), Entry(None, 60, Naive(1))}
    ELSE {Entry(Some("e"), 60, Naive(1))}
IdLists == {<<"a", "u1", "u1", "e", "c">>, <<>>}

NextDelete ==
    \/ \E email \in Emails : Register(RegisterBody(email, GoodPassword, None), "s1")
    \/ ResumeRegister
    \/ \E u \in UserIds : \E entry \in DeleteEntries(u) :
          Authenticate("create", IssuedAt(u, now), entry)
    \/ HandleCreate
    \/ \E token \in FreshTokens : \E ids \in IdLists :
          Authenticate("batch_delete", token, Ids(ids))
    \/ HandleBatchDelete

SpecDelete == Init /\ [][NextDelete]_vars

(***************************************************************************)
(* SpecList: listing, over the records of a user who posts at three        *)
(* recording times, two entries at the same one, beside another user's     *)
(* record.                                                                 *)
(***************************************************************************)
ListEntries(user_id) ==
    IF user_id = 1
    THEN {Entry(Some("a"), 60, Naive(1)), Entry(Some("b"), 60, Naive(2)),
          Entry(Some("c"), 60, Aware(4, 1))}
    ELSE {Entry(Some("e"), 60, Naive(2))}
Pages == {<<2, 0>>, <<2, 2>>, <<0, 0>>}

NextList ==
    \/ \E email \in Emails : Register(RegisterBody(email, GoodPassword, None), "s1")
    \/ ResumeRegister
    \/ \E u \in UserIds : \E entry \in ListEntries(u) :
          Authenticate("create", IssuedAt(u, now), entry)
    \/ HandleCreate
    \/ \E token \in FreshTokens : \E page \in Pages :
          Authenticate("list", token, [limit |-> page[1], offset |-> page[2]])
    \/ HandleList

SpecList == Init /\ [][NextList]_vars

(***************************************************************************)
(* SpecRegister: registration over a rich set of bodies, beside profile    *)
(* updates that take a username or an email.                               *)
(***************************************************************************)
BobNewline == <<"b", "o", "b", "\n">>
RegisterBodies ==
    {RegisterBody(e, GoodPassword, u) : e \in Emails, u \in {None, Some(Bob)}}
    \cup {RegisterBody(DottedEmail, GoodPassword, Some(BobNewline)),
          RegisterBody(AliceEmail, WeakPassword, None),
          RegisterBody(AliceEmail, ArabicPassword, None),
          RegisterBody(NotAnEmail, GoodPassword, None),
          RegisterBody(AliceEmail, GoodPassword, Some(TooShort))}
RenameBodies == {UpdateBody(Some(Bob), None, None, None),
                 UpdateBody(None, Some(AliceEmail), None, None)}

NextRegister ==
    \/ \E body \in RegisterBodies : \E salt \in Salts : Register(body, salt)
    \/ ResumeRegister
    \/ \E token \in FreshTokens : \E body \in RenameBodies :
          Authenticate("update_profile", token, body)
    \/ HandleUpdateProfile

SpecRegister == Init /\ [][NextRegister]_vars

(***************************************************************************)
(* SpecProfile: PUT /me over a rich set of bodies, with a heart-rate       *)
(* entry, GET /profile and POST /logout of the first user.                 *)
(***************************************************************************)
UpdateBodies(user_id) ==
    IF user_id = 1
    THEN {UpdateBody(None, None, Some(30), None),
          UpdateBody(Some(Bob), None, None, Some(Flu)),
          UpdateBody(None, None, Some(151), None)}
    ELSE {UpdateBody(Some(Bob), None, None, Some(Flu))}

NextProfile ==
    \/ \E email \in Emails : Register(RegisterBody(email, GoodPassword, None), "s1")
    \/ ResumeRegister
    \/ \E u \in UserIds : \E body \in UpdateBodies(u) :
          Authenticate("update_profile", IssuedAt(u, now), body)
    \/ HandleUpdateProfile
    \/ \E u \in UserIds \cap {1} :
          Authenticate("create", IssuedAt(u, now), Entry(Some("a"), 60, Naive(1)))
    \/ HandleCreate
    \/ \E u \in UserIds \cap {1} : \E op \in {"get_profile", "logout"} :
          Authenticate(op, IssuedAt(u, now), Empty)
    \/ HandleGetProfile
    \/ HandleLogout

SpecProfile == Init /\ [][NextProfile]_vars

(***************************************************************************)
(* Properties. A step that leaves the clock alone is a step of one         *)
(* request. The request is answered in its first step (Immediate: resp' is *)
(* its response), or it starts to wait (Begins), takes a further step      *)
(* (Continues) and is answered in its last one (Ends: resp' is its         *)
(* response). "records" and "users" are the tables the step finds.         *)
(***************************************************************************)
Immediate == now' = now /\ pending' = pending
Begins(q) == pending' = pending (+) SetToBag({q})
Continues(p, q) ==
    q # p /\ pending' = (pending (-) SetToBag({p})) (+) SetToBag({q})
Ends(p) == pending' = pending (-) SetToBag({p})
StepOf(p) == Ends(p) \/ \E q \in BagToSet(pending') : Continues(p, q)
UniqueRecordIds == \A r1, r2 \in records : r1.id = r2.id => r1 = r2
Stored(tbl, id, user_id) == \E r \in tbl : r.id = id /\ r.user_id = user_id
StoredForOther(tbl, id, user_id) == \E r \in tbl : r.id = id /\ r.user_id # user_id

(* C1: no two stored records ever share an id, and while a record with id  *)
(* X owned by U is stored, a POST /heart-rate by U with client-supplied id *)
(* X, whatever bpm and recorded_at it carries, inserts nothing and is      *)
(* answered 201 with the content of the stored record, leaving the table   *)
(* as it was.                                                              *)
C1_IdempotentCreate ==
    [][/\ UniqueRecordIds'
       /\ \A p \in BagToSet(pending) : \A q \in BagToSet(pending') :
             (Continues(p, q) /\ p.op = "create" /\ p.pc = "authenticated"
              /\ p.req.id = Some(q.req.id) /\ Stored(records, q.req.id, p.uid))
             => records' = records /\ q.pc = "lookup"
       /\ \A p \in BagToSet(pending) :
             (Ends(p) /\ p.op = "create" /\ p.req.entry.id = Some(p.req.id))
             => \A r \in records :
                   (r.id = p.req.id /\ r.user_id = p.uid)
                   => /\ resp'.status = 201
                      /\ resp'.body = [id |-> r.id, bpm |-> r.bpm,
                                       recorded_at |-> r.recorded_at,
                                       created_at |-> r.created_at]
                      /\ records' = records]_vars

(* C1 witness: a retry with another bpm, after the clock has moved on, was *)
(* answered 201 with the bpm and created_at of the stored record.          *)
C1_Witness ==
    /\ resp.op = "create" /\ resp.status = 201
    /\ resp.req.entry.id = Some("a")
    /\ resp.body.bpm # resp.req.entry.bpm
    /\ resp.body.created_at < now
    /\ \E r \in records : r.id = "a" /\ r.user_id = resp.uid /\ r.bpm = resp.body.bpm

(* C2: while a record with id X owned by another user A is stored, a POST  *)
(* /heart-rate by B with id X inserts nothing and, its insert refused, is  *)
(* answered 409 "Duplicate entry", leaving the table as it was: nothing is *)
(* added for B and A's record stays.                                       *)
C2_CrossUserCollision ==
    [][/\ \A p \in BagToSet(pending) : \A q \in BagToSet(pending') :
             (Continues(p, q) /\ p.op = "create" /\ p.pc = "authenticated"
              /\ StoredForOther(records, q.req.id, p.uid))
             => records' = records /\ q.pc = "lookup"
       /\ \A p \in BagToSet(pending) :
             (Ends(p) /\ p.op = "create" /\ p.pc = "lookup"
              /\ StoredForOther(records, p.req.id, p.uid))
             => /\ resp'.status = 409
                /\ resp'.detail = "Duplicate entry"
                /\ records' = records]_vars

(* C2 witness: B was answered 409 for id "a" while A's record "a" is       *)
(* stored and B owns nothing.                                              *)
C2_Witness ==
    /\ resp.op = "create" /\ resp.status = 409 /\ resp.detail = "Duplicate entry"
    /\ resp.req.entry.id = Some("a")
    /\ \E r \in records : r.id = "a" /\ r.user_id # resp.uid
    /\ \A r \in records : r.user_id # resp.uid

(* C10: whatever requests commit meanwhile, a POST /heart-rate by U with   *)
(* id X is answered 409 only when a record with id X owned by a user other *)
(* than U is stored, and never when the record its insert collided with    *)
(* was U's own.                                                            *)
C10_ConflictOnlyForOtherOwner ==
    [][\A p \in BagToSet(pending) :
          (Ends(p) /\ p.op = "create" /\ p.pc = "lookup" /\ resp'.status = 409)
          => /\ StoredForOther(records, p.req.id, p.uid)
             /\ p.snap.owner # p.uid]_vars

(* C4: DELETE /heart-rate/{entry_id} by U is answered 404 "Record not      *)
(* found", the table unchanged, exactly when U owns no record with that    *)
(* id, whether the id is unknown or another user's; otherwise it is        *)
(* answered 204, and the only record it removes is the record with that id *)
(* owned by U.                                                             *)
C4_DeleteOwnOnly ==
    [][\A p \in BagToSet(pending) :
          (p.op = "delete" /\ StepOf(p))
          => /\ (p.pc = "authenticated" /\ Ends(p))
                   => /\ ~Stored(records, p.req.entry_id, p.uid)
                      /\ resp'.status = 404
                      /\ resp'.detail = "Record not found"
                      /\ resp'.auth = ""
                      /\ resp'.body = Empty
                      /\ records' = records
             /\ (p.pc = "authenticated" /\ ~Ends(p))
                   => Stored(records, p.req.entry_id, p.uid) /\ records' = records
             /\ p.pc = "selected"
                   => /\ Ends(p)
                      /\ resp'.status = 204
                      /\ \A r \in records :
                            r \notin records'
                            => r.id = p.req.entry_id /\ r.user_id = p.uid
                      /\ ~Stored(records', p.req.entry_id, p.uid)]_vars

(* C5: POST /heart-rate/batch-delete by U with list IDS removes exactly    *)
(* the records whose id is in IDS and whose owner is U, is answered 200    *)
(* whatever ids are unknown or another user's, and reports the number of   *)
(* records removed.                                                        *)
C5_BatchDelete ==
    [][\A p \in BagToSet(pending) :
          (Ends(p) /\ p.op = "batch_delete")
          => /\ resp'.status = 200
             /\ records' \subseteq records
             /\ \A r \in records :
                   r \notin records'
                   <=> (r.user_id = p.uid
                        /\ \E i \in 1..Len(p.req.ids) : p.req.ids[i] = r.id)
             /\ resp'.body.deleted = Cardinality(records) - Cardinality(records')]_vars

(* C5 witness: U owned "a" and "u1", asked for "a", "u1" twice, another    *)
(* user's "e" and the unknown "c" while "e" is stored, and was told 2.     *)
C5_Witness ==
    /\ resp.op = "batch_delete" /\ resp.status = 200
    /\ resp.req.ids = <<"a", "u1", "u1", "e", "c">>
    /\ resp.body.deleted = 2
    /\ \E r \in records : r.id = "e" /\ r.user_id # resp.uid

(* C9: a request to an endpoint that requires authentication carrying no   *)
(* credential, a malformed one, one whose signature does not verify or an  *)
(* expired one is answered 401 with WWW-Authenticate: Bearer in its first  *)
(* step and changes no stored user and no stored record; it never reaches  *)
(* a handler.                                                              *)
AuthenticatedOps == {"get_profile", "update_profile", "logout", "create",
                     "list", "delete", "batch_delete"}
Unverifiable(token) ==
    \/ token.form = "absent"
    \/ token.form = "garbage"
    \/ token.form = "jwt" /\ (~token.signed \/ token.exp < now)
C9_Unauthenticated ==
    [][/\ (Immediate /\ resp'.op \in AuthenticatedOps /\ Unverifiable(resp'.tok))
             => /\ resp'.status = 401
                /\ resp'.auth = "Bearer"
                /\ users' = users
                /\ records' = records
       /\ \A q \in BagToSet(pending') :
             (Begins(q) /\ q.op \in AuthenticatedOps) => ~Unverifiable(q.tok)]_vars

(* C9 witness: a batch delete with an expired token of the owner of a      *)
(* stored record was answered 401.                                         *)
C9_Witness ==
    /\ resp.op = "batch_delete" /\ resp.status = 401 /\ resp.auth = "Bearer"
    /\ resp.tok.form = "jwt" /\ resp.tok.signed /\ resp.tok.exp < now
    /\ \E r \in records : IntToStr(r.user_id) = Val(resp.tok.sub)

Min(a, b) == IF a < b THEN a ELSE b
Max(a, b) == IF a > b THEN a ELSE b

(* C3: GET /heart-rate by U with limit L and offset O changes nothing and  *)
(* returns the slice [O, O+L) of U's records by recorded_at descending:    *)
(* only records U owns, none twice, never increasing in recorded_at, of    *)
(* the slice's length, and the i-th returned record has at most O+i-1      *)
(* records of U strictly later than it and at least O+i at or after it.    *)
C3_ListOwnSlice ==
    [][\A p \in BagToSet(pending) :
          (Ends(p) /\ p.op = "list")
          => LET page == resp'.body.items
                 L == p.req.limit
                 O == p.req.offset
                 own == {r \in records : r.user_id = p.uid}
             IN  /\ records' = records
                 /\ users' = users
                 /\ resp'.status = 200
                 /\ Len(page) = Max(0, Min(L, Cardinality(own) - O))
                 /\ \A i \in 1..Len(page) :
                       /\ \E r \in own : page[i] = [id |-> r.id, bpm |-> r.bpm,
                                                    recorded_at |-> r.recorded_at,
                                                    created_at |-> r.created_at]
                       /\ \A r \in records : r.id = page[i].id => r.user_id = p.uid
                       /\ Cardinality({r \in own : r.recorded_at > page[i].recorded_at})
                             <= O + i - 1
                       /\ Cardinality({r \in own : r.recorded_at >= page[i].recorded_at})
                             >= O + i
                 /\ \A i, j \in 1..Len(page) :
                       i < j => /\ page[i].id # page[j].id
                                /\ page[i].recorded_at >= page[j].recorded_at]_vars

(* C3 witness: U owns records recorded at 1, 2 and 3, another user owns a  *)
(* record too, and limit=2&offset=2 returned the one recorded at 1.        *)
C3_Witness ==
    /\ resp.op = "list" /\ resp.status = 200
    /\ resp.req = [limit |-> 2, offset |-> 2]
    /\ {r.recorded_at : r \in {x \in records : x.user_id = resp.uid}} = {1, 2, 3}
    /\ Cardinality({x \in records : x.user_id = resp.uid}) = 3
    /\ \E r \in records : r.user_id # resp.uid
    /\ Len(resp.body.items) = 1
    /\ resp.body.items[1].recorded_at = 1

UniqueUsers ==
    \A i, j \in 1..Len(users) :
        i # j => users[i].email # users[j].email /\ users[i].username # users[j].username
EmailTaken(tbl, email) == \E i \in 1..Len(tbl) : tbl[i].email = email
UsernameTaken(tbl, username) == \E i \in 1..Len(tbl) : tbl[i].username = username
RequestedUsername(body) ==
    IF body.username = None THEN LocalPart(body.email) ELSE body.username[1]

(* C6: after any requests, interleaved as they may be, no two stored users *)
(* share an email or a username; a registration is refused, with 409       *)
(* "Email or username already registered" and no user added, exactly when  *)
(* its email or its username is stored already, so always when its email   *)
(* is, whatever username it carries; otherwise it adds the user and is     *)
(* answered 201.                                                           *)
C6_DuplicateRegistration ==
    [][/\ UniqueUsers'
       /\ (Immediate /\ resp'.op = "register" /\ resp'.status # 422)
             => /\ resp'.status = 409
                /\ resp'.detail = "Email or username already registered"
                /\ users' = users
                /\ \/ EmailTaken(users, resp'.req.email)
                   \/ UsernameTaken(users, RequestedUsername(resp'.req))
       /\ \A q \in BagToSet(pending') :
             (Begins(q) /\ q.op = "register")
             => /\ ~EmailTaken(users, q.req.email)
                /\ ~UsernameTaken(users, RequestedUsername(q.req))
                /\ Len(users') = Len(users) + 1
                /\ SubSeq(users', 1, Len(users)) = users
                /\ users'[Len(users')].email = q.req.email
       /\ \A p \in BagToSet(pending) :
             (Ends(p) /\ p.op = "register")
             => resp'.status = 201 /\ users' = users]_vars

(* C6 witness: the email was registered before under another username, the *)
(* second registration named a username nobody holds, and got 409.         *)
C6_Witness ==
    /\ resp.op = "register" /\ resp.status = 409
    /\ resp.req.username = Some(Bob)
    /\ \E i \in 1..Len(users) : users[i].email = resp.req.email
    /\ \A i \in 1..Len(users) : users[i].username # Bob

(* C7: every stored username is 3 to 30 characters long and made of        *)
(* letters, digits, hyphens and underscores only, derived ones included.   *)
UsernamePattern(v) ==
    /\ Len(v) >= 3
    /\ Len(v) <= 30
    /\ \A i \in 1..Len(v) : v[i] \in Upper \cup Lower \cup Digit \cup {"-", "_"}
C7_UsernamesMatchPattern == \A i \in 1..Len(users) : UsernamePattern(users[i].username)

(* C8: no step of a PUT /me by U touches a record, another user's row, or  *)
(* a field of U's row that the body does not supply; a PUT /me answered    *)
(* 400 "Email or username already taken" has applied nothing; and on the   *)
(* row as the request loaded it, the commit is refused with 400 when a     *)
(* supplied email or username is another user's, and otherwise gives each  *)
(* supplied field its new value.                                           *)
C8_PartialUpdate ==
    [][/\ \A q \in BagToSet(pending') :
             (Begins(q) /\ q.op = "update_profile")
             => users' = users /\ records' = records
       /\ \A p \in BagToSet(pending) :
             (p.op = "update_profile" /\ StepOf(p))
             => LET U == p.uid
                    b == p.req
                    old == users[U]
                    username == IF b.username = None THEN old.username
                                ELSE b.username[1]
                    email == IF b.email = None THEN old.email ELSE b.email[1]
                    taken == \E j \in 1..Len(users) :
                                j # U /\ (users[j].username = username
                                          \/ users[j].email = email)
                IN  /\ records' = records
                    /\ Len(users') = Len(users)
                    /\ \A j \in 1..Len(users) : j # U => users'[j] = users[j]
                    /\ users'[U].id = old.id
                    /\ users'[U].hashed_password = old.hashed_password
                    /\ b.username = None => users'[U].username = old.username
                    /\ b.email = None => users'[U].email = old.email
                    /\ b.age = None => users'[U].age = old.age
                    /\ b.health_issues = None
                          => users'[U].health_issues = old.health_issues
                    /\ (Ends(p) /\ resp'.status = 400)
                          => /\ resp'.detail = "Email or username already taken"
                             /\ users' = users
                    /\ p.pc = "authenticated" => users' = users /\ ~Ends(p)
                    /\ p.pc = "committed"
                          => users' = users /\ Ends(p) /\ resp'.status = 200
                    /\ (p.pc = "loaded" /\ old = p.snap)
                          => IF taken
                             THEN Ends(p) /\ resp'.status = 400
                             ELSE /\ ~Ends(p)
                                  /\ users'[U].username = username
                                  /\ users'[U].email = email
                                  /\ users'[U].age =
                                        (IF b.age = None THEN old.age ELSE b.age)
                                  /\ users'[U].health_issues =
                                        (IF b.health_issues = None
                                         THEN old.health_issues
                                         ELSE b.health_issues)]_vars

(* C8 witness: an update of age alone was answered 200 for a user who had  *)
(* set health_issues before and still has it, beside another user and a    *)
(* record.                                                                 *)
C8_Witness ==
    /\ resp.op = "update_profile" /\ resp.status = 200
    /\ resp.req = UpdateBody(None, None, Some(30), None)
    /\ users[resp.uid].health_issues = Some(Flu)
    /\ users[resp.uid].age = Some(30)
    /\ Len(users) = 2
    /\ records # {}

====
